---- MODULE Spec2Model ----
(***************************************************************************)
(* A model of the ray tracer: vector algebra, transforms, shape and object *)
(* intersection, the material lighting estimator, the scene's closest      *)
(* intersection and recursive sampler, and the parallel render loop.       *)
(*                                                                         *)
(* f32 values are modelled as extended rationals [n, d]: d > 0 is the      *)
(* finite value n/d in lowest terms, d = 0 is +inf (n = 1), -inf (n = -1)  *)
(* or NaN (n = 0).  Arithmetic is exact; sqrt is exact on perfect squares  *)
(* and rounds down to a grid otherwise.  Signed zeros are not modelled.    *)
(*                                                                         *)
(* An operator that uses an argument more than once first binds it to its  *)
(* value, Op(a_) == CHOOSE val \in {(body) : a \in {a_}} : TRUE, which is   *)
(* body with a_ for a: the argument is then computed once.                 *)
(***************************************************************************)
EXTENDS Integers, Sequences, FiniteSets, TLC

VARIABLES
    inp,      \* the arguments of the pure function under evaluation
    out,      \* its result; out.done is FALSE until the function has been applied
    stack,    \* Scene::sample / Material::lighting call stack (innermost last)
    ret,      \* value returned by the outermost Scene::sample call
    queries,  \* number of closest_intersection queries made so far
    calls,    \* the bounce budget of every Scene::sample call made, in call order
    next_ix,  \* render: pixel indices not yet handed to a worker
    worker,   \* render: per worker, the pixel task it is running (or idle)
    slots,    \* render: per pixel index, the colour collected for it
    image     \* render: the returned Image, "none" until render returns

vars == <<inp, out, stack, ret, queries, calls, next_ix, worker, slots, image>>

----------------------------------------------------------------------------
(* f32 arithmetic *)

Sign(i) == IF i > 0 THEN 1 ELSE IF i < 0 THEN -1 ELSE 0

Abs(i) == IF i < 0 THEN -i ELSE i

RECURSIVE GCD(_, _)
GCD(a_, b_) ==
    CHOOSE val \in {(
        IF b = 0 THEN a ELSE GCD(b, a % b)
    ) : a \in {a_}, b \in {b_}} : TRUE

Reduce(n_, d_, g_) ==
    CHOOSE val \in {(
        [n |-> n \div g, d |-> d \div g]
    ) : n \in {n_}, d \in {d_}, g \in {g_}} : TRUE

\* The f32 with value n/d, in lowest terms; d = 0 gives inf or NaN.
Rat(n_, d_) ==
    CHOOSE val \in {(
        IF d = 0 THEN [n |-> Sign(n), d |-> 0]
        ELSE IF d < 0 THEN Reduce(-n, -d, GCD(Abs(n), Abs(d)))
        ELSE Reduce(n, d, GCD(Abs(n), Abs(d)))
    ) : n \in {n_}, d \in {d_}} : TRUE

I(k) == [n |-> k, d |-> 1]

NaN == [n |-> 0, d |-> 0]

PosInf == [n |-> 1, d |-> 0]

IsNaN(a) == a.n = 0 /\ a.d = 0

IsFinite(a) == a.d > 0

FNeg(a_) ==
    CHOOSE val \in {(
        [n |-> -a.n, d |-> a.d]
    ) : a \in {a_}} : TRUE

LCM(x_, y_) ==
    CHOOSE val \in {(
        (x \div GCD(x, y)) * y
    ) : x \in {x_}, y \in {y_}} : TRUE

\* a + b over the common denominator l
AddOver(a_, b_, l_) ==
    CHOOSE val \in {(
        Rat(a.n * (l \div a.d) + b.n * (l \div b.d), l)
    ) : a \in {a_}, b \in {b_}, l \in {l_}} : TRUE

FAdd(a_, b_) ==
    CHOOSE val \in {(
        IF IsNaN(a) \/ IsNaN(b) THEN NaN
        ELSE IF a.d = 0 /\ b.d = 0 THEN (IF a.n = b.n THEN a ELSE NaN)
        ELSE IF a.d = 0 THEN a
        ELSE IF b.d = 0 THEN b
        ELSE AddOver(a, b, LCM(a.d, b.d))
    ) : a \in {a_}, b \in {b_}} : TRUE

FSub(a, b) == FAdd(a, FNeg(b))

\* a * b with the common factors g1 of a.n and b.d, g2 of b.n and a.d removed
MulReduced(a_, b_, g1_, g2_) ==
    CHOOSE val \in {(
        Rat((a.n \div g1) * (b.n \div g2), (a.d \div g2) * (b.d \div g1))
    ) : a \in {a_}, b \in {b_}, g1 \in {g1_}, g2 \in {g2_}} : TRUE

FMul(a_, b_) ==
    CHOOSE val \in {(
        IF IsNaN(a) \/ IsNaN(b) THEN NaN
        ELSE IF a.d = 0 \/ b.d = 0 THEN Rat(Sign(a.n) * Sign(b.n), 0)
        ELSE IF a.n = 0 \/ b.n = 0 THEN I(0)
        ELSE MulReduced(a, b, GCD(Abs(a.n), b.d), GCD(Abs(b.n), a.d))
    ) : a \in {a_}, b \in {b_}} : TRUE

\* 1/a: 1/0 is +inf, 1/inf is 0.
FRecip(a_) ==
    CHOOSE val \in {(
        IF IsNaN(a) THEN NaN
        ELSE IF a.d = 0 THEN I(0)
        ELSE IF a.n = 0 THEN PosInf
        ELSE Rat(a.d, a.n)
    ) : a \in {a_}} : TRUE

FDiv(a, b) == FMul(a, FRecip(b))

\* n1/d1 < n2/d2 for d1, d2 > 0, by integer parts and then the reciprocals
\* of the fractional parts, so that no product is formed.
RECURSIVE RatLess(_, _, _, _)
RatLess(n1_, d1_, n2_, d2_) ==
    CHOOSE val \in {(
        IF n1 \div d1 # n2 \div d2 THEN n1 \div d1 < n2 \div d2
        ELSE IF n1 % d1 = 0 THEN n2 % d2 > 0
        ELSE IF n2 % d2 = 0 THEN FALSE
        ELSE RatLess(d2, n2 % d2, d1, n1 % d1)
    ) : n1 \in {n1_}, d1 \in {d1_}, n2 \in {n2_}, d2 \in {d2_}} : TRUE

\* a < b; every comparison with NaN is false.
FLt(a_, b_) ==
    CHOOSE val \in {(
        IF IsNaN(a) \/ IsNaN(b) THEN FALSE
        ELSE IF a.d = 0 \/ b.d = 0
             THEN (IF a.d = 0 THEN a.n ELSE 0) < (IF b.d = 0 THEN b.n ELSE 0)
        ELSE RatLess(a.n, a.d, b.n, b.d)
    ) : a \in {a_}, b \in {b_}} : TRUE

FGt(a, b) == FLt(b, a)

FLe(a_, b_) ==
    CHOOSE val \in {(
        ~IsNaN(a) /\ ~IsNaN(b) /\ ~FLt(b, a)
    ) : a \in {a_}, b \in {b_}} : TRUE

FAbs(a_) ==
    CHOOSE val \in {(
        [n |-> Abs(a.n), d |-> a.d]
    ) : a \in {a_}} : TRUE

\* f32::min: the other operand when one is NaN.
FMin(a_, b_) ==
    CHOOSE val \in {(
        IF IsNaN(a) THEN b
        ELSE IF IsNaN(b) THEN a
        ELSE IF FLt(b, a) THEN b ELSE a
    ) : a \in {a_}, b \in {b_}} : TRUE

\* f32::clamp: NaN stays NaN.
FClamp(a_, lo_, hi_) ==
    CHOOSE val \in {(
        IF FLt(a, lo) THEN lo
        ELSE IF FGt(a, hi) THEN hi
        ELSE a
    ) : a \in {a_}, lo \in {lo_}, hi \in {hi_}} : TRUE

Powi2(a_) ==
    CHOOSE val \in {(
        FMul(a, a)
    ) : a \in {a_}} : TRUE

\* Largest k in lo..hi with k^2 <= x (lo^2 <= x assumed).
RECURSIVE ISqrtIn(_, _, _)
ISqrtIn(x_, lo_, hi_) ==
    CHOOSE val \in {(
        IF lo >= hi THEN lo
        ELSE LET mid == (lo + hi + 1) \div 2
             IN  IF mid * mid <= x THEN ISqrtIn(x, mid, hi)
                 ELSE ISqrtIn(x, lo, mid - 1)
    ) : x \in {x_}, lo \in {lo_}, hi \in {hi_}} : TRUE

\* floor(sqrt(x)) for 0 <= x < 2^31
ISqrt(x_) ==
    CHOOSE val \in {(
        ISqrtIn(x, 0, IF x < 46340 THEN x ELSE 46340)
    ) : x \in {x_}} : TRUE

SquareOf(x, r_) ==
    CHOOSE val \in {(
        r * r = x
    ) : r \in {r_}} : TRUE

IsSquare(x_) ==
    CHOOSE val \in {(
        x >= 0 /\ SquareOf(x, ISqrt(x))
    ) : x \in {x_}} : TRUE

\* Denominator of the grid an irrational square root is rounded down to.
SqrtGrid == 16

FSqrt(a_) ==
    CHOOSE val \in {(
        IF IsNaN(a) \/ a.n < 0 THEN NaN
        ELSE IF a.d = 0 THEN PosInf
        ELSE IF IsSquare(a.n) /\ IsSquare(a.d) THEN Rat(ISqrt(a.n), ISqrt(a.d))
        ELSE Rat(ISqrt((a.n * SqrtGrid * SqrtGrid) \div a.d), SqrtGrid)
    ) : a \in {a_}} : TRUE

----------------------------------------------------------------------------
(* Vector3 *)

new(x, y, z) == [x |-> x, y |-> y, z |-> z]

\* An integer-valued vector.
V(x, y, z) == new(I(x), I(y), I(z))

zeros == V(0, 0, 0)

ones == V(1, 1, 1)

\* (x / nrm, y / nrm, z / nrm)
DivBy(x, y, z, nrm_) ==
    CHOOSE val \in {(
        new(FDiv(x, nrm), FDiv(y, nrm), FDiv(z, nrm))
    ) : nrm \in {nrm_}} : TRUE

unit(x_, y_, z_) ==
    CHOOSE val \in {(
        DivBy(x, y, z, FSqrt(FAdd(FAdd(Powi2(x), Powi2(y)), Powi2(z))))
    ) : x \in {x_}, y \in {y_}, z \in {z_}} : TRUE

squared_norm(v_) ==
    CHOOSE val \in {(
        FAdd(FAdd(Powi2(v.x), Powi2(v.y)), Powi2(v.z))
    ) : v \in {v_}} : TRUE

norm(v) == FSqrt(squared_norm(v))

normalized(v_) ==
    CHOOSE val \in {(
        DivBy(v.x, v.y, v.z, norm(v))
    ) : v \in {v_}} : TRUE

dot(a_, b_) ==
    CHOOSE val \in {(
        FAdd(FAdd(FMul(a.x, b.x), FMul(a.y, b.y)), FMul(a.z, b.z))
    ) : a \in {a_}, b \in {b_}} : TRUE

\* The left-handed product: the operands exchanged.
cross_left_handed(a_, b_) ==
    CHOOSE val \in {(
        new(FSub(FMul(b.y, a.z), FMul(b.z, a.y)),
            FSub(FMul(b.z, a.x), FMul(b.x, a.z)),
            FSub(FMul(b.x, a.y), FMul(b.y, a.x)))
    ) : a \in {a_}, b \in {b_}} : TRUE

cross(a_, b_) ==
    CHOOSE val \in {(
        new(FSub(FMul(a.y, b.z), FMul(a.z, b.y)),
            FSub(FMul(a.z, b.x), FMul(a.x, b.z)),
            FSub(FMul(a.x, b.y), FMul(a.y, b.x)))
    ) : a \in {a_}, b \in {b_}} : TRUE

\* Faulty variant of cwise_min: the first operand, unbounded.
cwise_first(a, b) == a

\* cwise with f = f32::min
cwise_min(a_, b_) ==
    CHOOSE val \in {(
        new(FMin(a.x, b.x), FMin(a.y, b.y), FMin(a.z, b.z))
    ) : a \in {a_}, b \in {b_}} : TRUE

cwise_mul(a_, b_) ==
    CHOOSE val \in {(
        new(FMul(a.x, b.x), FMul(a.y, b.y), FMul(a.z, b.z))
    ) : a \in {a_}, b \in {b_}} : TRUE

VAdd(a_, b_) ==
    CHOOSE val \in {(
        new(FAdd(a.x, b.x), FAdd(a.y, b.y), FAdd(a.z, b.z))
    ) : a \in {a_}, b \in {b_}} : TRUE

VSub(a_, b_) ==
    CHOOSE val \in {(
        new(FSub(a.x, b.x), FSub(a.y, b.y), FSub(a.z, b.z))
    ) : a \in {a_}, b \in {b_}} : TRUE

\* vector * scalar and scalar * vector
VMul(a_, k_) ==
    CHOOSE val \in {(
        new(FMul(a.x, k), FMul(a.y, k), FMul(a.z, k))
    ) : a \in {a_}, k \in {k_}} : TRUE

VNeg(a_) ==
    CHOOSE val \in {(
        new(FNeg(a.x), FNeg(a.y), FNeg(a.z))
    ) : a \in {a_}} : TRUE

----------------------------------------------------------------------------
(* Ray *)

Ray(origin, direction) == [origin |-> origin, direction |-> direction]

at(ray_, t) ==
    CHOOSE val \in {(
        VAdd(ray.origin, VMul(ray.direction, t))
    ) : ray \in {ray_}} : TRUE

----------------------------------------------------------------------------
(* Camera *)

Camera(focal_len, width) == [focal_len |-> focal_len, width |-> width]

\* Camera::ray: the ray through the pixel at relative position (x_i, -y_i).
Camera_ray(camera, x, y, x_res, y_res) ==
    Ray(zeros,
        unit(FMul(FSub(I(x), FDiv(I(x_res), I(2))), FDiv(camera.width, I(x_res))),
             FNeg(FMul(FSub(I(y), FDiv(I(y_res), I(2))),
                       FDiv(camera.width, FMul(I(y_res), FDiv(I(x_res), I(y_res)))))),
             camera.focal_len))

----------------------------------------------------------------------------
(* Transform *)

\* An f32 angle, identified by its cosine and sine (both rational here).
Angle(c, s) == [c |-> c, s |-> s]

cos(a) == a.c

sin(a) == a.s

\* -angle: the cosine is even, the sine odd.
NegAngle(a_) ==
    CHOOSE val \in {(
        [c |-> a.c, s |-> FNeg(a.s)]
    ) : a \in {a_}} : TRUE

Scale(v) == [kind |-> "Scale", v |-> v, angle |-> Angle(I(1), I(0))]

Translate(v) == [kind |-> "Translate", v |-> v, angle |-> Angle(I(1), I(0))]

Rotate(axis, a) == [kind |-> "Rotate", v |-> axis, angle |-> a]

inverse(t_) ==
    CHOOSE val \in {(
        CASE t.kind = "Scale" ->
                Scale(new(FDiv(I(1), t.v.x), FDiv(I(1), t.v.x), FDiv(I(1), t.v.x)))
          [] t.kind = "Rotate" -> Rotate(t.v, NegAngle(t.angle))
          [] t.kind = "Translate" -> Translate(VNeg(t.v))
    ) : t \in {t_}} : TRUE

transform(t_, vector_) ==
    CHOOSE val \in {(
        CASE t.kind = "Scale" ->
                new(FMul(vector.x, t.v.x), FMul(vector.y, t.v.y), FMul(vector.z, t.v.z))
          [] t.kind = "Rotate" ->
                VAdd(VAdd(VMul(vector, cos(t.angle)), VMul(cross(t.v, vector), sin(t.angle))),
                     VMul(VMul(t.v, dot(vector, t.v)), FSub(I(1), cos(t.angle))))
          [] t.kind = "Translate" -> VAdd(vector, t.v)
    ) : t \in {t_}, vector \in {vector_}} : TRUE

transform_ray(t_, ray_) ==
    CHOOSE val \in {(
        IF t.kind = "Translate"
        THEN Ray(transform(t, ray.origin), ray.direction)
        ELSE Ray(transform(t, ray.origin), transform(t, ray.direction))
    ) : t \in {t_}, ray \in {ray_}} : TRUE

----------------------------------------------------------------------------
(* Shape and Object *)

None == [some |-> FALSE]

Some(t, position, normal) ==
    [some |-> TRUE, t |-> t, position |-> position, normal |-> normal]

\* The hit at parameter t, at `position` on the unit sphere.
sphere_hit(t, position_) ==
    CHOOSE val \in {(
        Some(t, position, normalized(position))
    ) : position \in {position_}} : TRUE

\* Faulty variant of sphere_root: the far root.
sphere_far_root(ray, a, b, d) == FDiv(FAdd(FNeg(b), FSqrt(d)), FMul(I(2), a))

\* The near root for discriminant d >= 0.
sphere_root(ray, a, b, d) == FDiv(FSub(FNeg(b), FSqrt(d)), FMul(I(2), a))

sphere_solve(ray_, a_, b_, d_) ==
    CHOOSE val \in {(
        IF FLt(d, I(0)) THEN None
        ELSE sphere_hit(sphere_root(ray, a, b, d),
                        VAdd(ray.origin, VMul(ray.direction, sphere_root(ray, a, b, d))))
    ) : ray \in {ray_}, a \in {a_}, b \in {b_}, d \in {d_}} : TRUE

sphere_quadratic(ray, a_, b_, c) ==
    CHOOSE val \in {(
        sphere_solve(ray, a, b, FSub(Powi2(b), FMul(FMul(I(4), a), c)))
    ) : a \in {a_}, b \in {b_}} : TRUE

Sphere_intersection(ray_) ==
    CHOOSE val \in {(
        sphere_quadratic(ray,
                         squared_norm(ray.direction),
                         FMul(I(2), dot(ray.direction, ray.origin)),
                         FSub(squared_norm(ray.origin), I(1)))
    ) : ray \in {ray_}} : TRUE

\* The bounds test and the choice of the normal, for the crossing at t.
\* The hit with the canonical normal n, never flipped towards the ray.
plane_hit_unflipped(t, position_, n_, b) ==
    CHOOSE val \in {(
        IF FGt(position.x, I(1)) \/ FGt(position.y, I(1)) THEN None
        ELSE Some(t, position, n)
    ) : position \in {position_}, n \in {n_}} : TRUE

plane_hit(t, position_, n_, b) ==
    CHOOSE val \in {(
        IF FGt(position.x, I(1)) \/ FGt(position.y, I(1)) THEN None
        ELSE Some(t, position, IF FLt(b, I(0)) THEN n ELSE VNeg(n))
    ) : position \in {position_}, n \in {n_}} : TRUE

plane_at(ray_, n, b, t_) ==
    CHOOSE val \in {(
        IF FLt(t, I(0)) THEN None
        ELSE plane_hit(t, VAdd(ray.origin, VMul(ray.direction, t)), n, b)
    ) : ray \in {ray_}, t \in {t_}} : TRUE

plane_solve(ray, n, a, b_) ==
    CHOOSE val \in {(
        IF FLt(FAbs(b), Rat(1, 1000000)) THEN None
        ELSE plane_at(ray, n, b, FDiv(a, b))
    ) : b \in {b_}} : TRUE

Plane_intersection(ray_) ==
    CHOOSE val \in {(
        plane_solve(ray, V(0, 0, 1), FNeg(dot(ray.origin, V(0, 0, 1))),
                    dot(ray.direction, V(0, 0, 1)))
    ) : ray \in {ray_}} : TRUE

Shape_intersection(shape, ray_) ==
    CHOOSE val \in {(
        IF shape = "Sphere" THEN Sphere_intersection(ray) ELSE Plane_intersection(ray)
    ) : ray \in {ray_}} : TRUE

Object(shape, material, transforms) ==
    [object |-> shape, material |-> material, transforms |-> transforms]

\* transforms.iter().rev().fold(ray, |r, t| t.inverse().transform_ray(r))
RECURSIVE to_local(_, _)
to_local(transforms_, ray_) ==
    CHOOSE val \in {(
        IF transforms = <<>> THEN ray
        ELSE to_local(SubSeq(transforms, 1, Len(transforms) - 1),
                      transform_ray(inverse(transforms[Len(transforms)]), ray))
    ) : transforms \in {transforms_}, ray \in {ray_}} : TRUE

\* transforms.iter().fold(local.position, |p, t| t.transform(p))
RECURSIVE position_to_world(_, _)
position_to_world(transforms_, p_) ==
    CHOOSE val \in {(
        IF transforms = <<>> THEN p
        ELSE position_to_world(Tail(transforms), transform(Head(transforms), p))
    ) : transforms \in {transforms_}, p \in {p_}} : TRUE

normal_step(t_, p_) ==
    CHOOSE val \in {(
        CASE t.kind = "Translate" -> p
          [] t.kind = "Rotate" -> transform(t, p)
          [] t.kind = "Scale" -> transform(inverse(t), p)
    ) : t \in {t_}, p \in {p_}} : TRUE

\* transforms.iter().fold(local.normal, ...), before .normalized()
RECURSIVE normal_to_world(_, _)
normal_to_world(transforms_, p_) ==
    CHOOSE val \in {(
        IF transforms = <<>> THEN p
        ELSE normal_to_world(Tail(transforms), normal_step(Head(transforms), p))
    ) : transforms \in {transforms_}, p \in {p_}} : TRUE

\* The local hit (or miss) mapped to world space.
to_world(obj_, local_) ==
    CHOOSE val \in {(
        IF ~local.some THEN None
        ELSE Some(local.t,
                  position_to_world(obj.transforms, local.position),
                  normalized(normal_to_world(obj.transforms, local.normal)))
    ) : obj \in {obj_}, local \in {local_}} : TRUE

Object_intersection(obj_, ray) ==
    CHOOSE val \in {(
        to_world(obj, Shape_intersection(obj.object, to_local(obj.transforms, ray)))
    ) : obj \in {obj_}} : TRUE

----------------------------------------------------------------------------
(* Scene::closest_intersection *)

Hit(t, int, o) ==
    [some |-> TRUE, t |-> t, position |-> int.position, normal |-> int.normal,
     obj |-> o]

\* Faulty variant of closest_step: a hit as near as the best one replaces it.
closest_step_last(c_, i_, o_, tmin_) ==
    CHOOSE val \in {(
        IF ~c.some /\ i.some /\ FGt(i.t, tmin) THEN Hit(i.t, i, o)
        ELSE IF c.some /\ i.some /\ FLe(i.t, c.t) /\ FGt(i.t, tmin) THEN Hit(i.t, i, o)
        ELSE c
    ) : c \in {c_}, i \in {i_}, o \in {o_}, tmin \in {tmin_}} : TRUE

\* One step of the fold: c is the best hit so far, i the intersection of
\* object number o with the ray.
closest_step(c_, i_, o_, tmin_) ==
    CHOOSE val \in {(
        IF ~c.some /\ i.some /\ FGt(i.t, tmin) THEN Hit(i.t, i, o)
        ELSE IF c.some /\ i.some /\ FLt(i.t, c.t) /\ FGt(i.t, tmin) THEN Hit(i.t, i, o)
        ELSE c
    ) : c \in {c_}, i \in {i_}, o \in {o_}, tmin \in {tmin_}} : TRUE

RECURSIVE closest_fold(_, _, _, _, _)
closest_fold(objects_, ray_, tmin_, o_, c_) ==
    CHOOSE val \in {(
        IF o > Len(objects) THEN c
        ELSE closest_fold(objects, ray, tmin, o + 1,
                          closest_step(c, Object_intersection(objects[o], ray), o, tmin))
    ) : objects \in {objects_}, ray \in {ray_}, tmin \in {tmin_}, o \in {o_}, c \in {c_}} : TRUE

\* The winning object is returned as its position in the object list.
closest_intersection(objects, ray, tmin) == closest_fold(objects, ray, tmin, 1, None)

----------------------------------------------------------------------------
(* Material *)

Emissive(color, intensity) ==
    [kind |-> "Emissive", color |-> color, intensity |-> intensity, roughness |-> I(0)]

Diffuse(color) ==
    [kind |-> "Diffuse", color |-> color, intensity |-> I(0), roughness |-> I(0)]

Specular(color, roughness) ==
    [kind |-> "Specular", color |-> color, intensity |-> I(0), roughness |-> roughness]

\* std::f32::consts::PI, as a rational
PI == Rat(22, 7)

specular_halfway(view, dir) == normalized(VAdd(view, dir))

specular_d(normal, halfway, roughness_) ==
    CHOOSE val \in {(
        FClamp(FDiv(Powi2(dot(normal, halfway)),
                    FAdd(FSub(FMul(roughness, roughness), FMul(I(2), roughness)), PI)),
               I(0), I(1))
    ) : roughness \in {roughness_}} : TRUE

specular_g(view, halfway) ==
    FDiv(I(1), FClamp(FMul(I(4), Powi2(dot(view, halfway))), I(0), I(1)))

\* (d * g * color).cwise_mul(incoming) for the half vector `halfway`
specular_brdf(m_, view, normal, incoming, halfway_) ==
    CHOOSE val \in {(
        cwise_mul(VMul(m.color, FMul(specular_d(normal, halfway, m.roughness),
                                     specular_g(view, halfway))),
                  incoming)
    ) : m \in {m_}, halfway \in {halfway_}} : TRUE

\* A light source that gathers: the match with an Emissive arm that scales the
\* incoming radiance.
shade_emissive_lit(m_, view_, dir_, normal_, incoming_) ==
    CHOOSE val \in {(
        CASE m.kind = "Emissive" -> cwise_mul(VMul(m.color, m.intensity), incoming)
          [] m.kind = "Diffuse" ->
                VMul(cwise_mul(VMul(m.color, FDiv(dot(dir, normal), PI)), incoming),
                     FMul(I(2), PI))
          [] m.kind = "Specular" ->
                VMul(specular_brdf(m, view, normal, incoming, specular_halfway(view, dir)),
                     FMul(I(2), PI))
    ) : m \in {m_}, view \in {view_}, dir \in {dir_}, normal \in {normal_}, incoming \in {incoming_}} : TRUE

\* The match on the material that ends Material::lighting: the radiance
\* returned for the sampled direction dir and the incoming radiance.
shade(m_, view_, dir_, normal_, incoming_) ==
    CHOOSE val \in {(
        CASE m.kind = "Emissive" -> VMul(m.color, m.intensity)
          [] m.kind = "Diffuse" ->
                VMul(cwise_mul(VMul(m.color, FDiv(dot(dir, normal), PI)), incoming),
                     FMul(I(2), PI))
          [] m.kind = "Specular" ->
                VMul(specular_brdf(m, view, normal, incoming, specular_halfway(view, dir)),
                     FMul(I(2), PI))
    ) : m \in {m_}, view \in {view_}, dir \in {dir_}, normal \in {normal_}, incoming \in {incoming_}} : TRUE

----------------------------------------------------------------------------
(* Scene::sample and Material::lighting as functions of the random draws *)

\* The unit directions a draw of Vector3::unit(normal(), normal(), normal())
\* is taken from.
DrawnDirs == {V(1, 0, 0), V(-1, 0, 0), V(0, 1, 0), V(0, -1, 0), V(0, 0, 1), V(0, 0, -1)}

\* The loop's exit test.
accepts(dir, normal) == FGt(dot(dir, normal), I(0))

\* tmin of the ray lighting casts
BounceTmin == Rat(1, 1000)

\* Every value Scene::sample(ray, tmin, bounces) can return, over the
\* directions the rejection loops may draw; lighting_results is the same for
\* the lighting call made for the hit `closest`.
RECURSIVE sample_results(_, _, _, _), lighting_results(_, _, _, _)

lighting_results(objects, ray, closest, bounces) ==
    UNION {{shade(objects[closest.obj].material, VNeg(ray.direction), dir,
                  closest.normal, incoming) :
              incoming \in sample_results(objects, Ray(closest.position, dir),
                                          BounceTmin, bounces)} :
           dir \in {d \in DrawnDirs : accepts(d, closest.normal)}}

sample_hit_results(objects, ray, closest, bounces) ==
    IF ~closest.some THEN {zeros}
    ELSE lighting_results(objects, ray, closest, bounces - 1)

sample_results(objects, ray, tmin, bounces) ==
    IF bounces = 0 THEN {zeros}
    ELSE UNION {sample_hit_results(objects, ray, closest, bounces) :
                closest \in {closest_intersection(objects, ray, tmin)}}

----------------------------------------------------------------------------
(* The per-pixel arithmetic of Scene::render *)

\* The bounce budget render gives every sample.
RenderBounces == 3

\* Largest k in lo..hi with k^3 <= x (lo^3 <= x assumed).
RECURSIVE ICbrtIn(_, _, _)
ICbrtIn(x_, lo_, hi_) ==
    CHOOSE val \in {(
        IF lo >= hi THEN lo
        ELSE IF ((lo + hi + 1) \div 2) * ((lo + hi + 1) \div 2) * ((lo + hi + 1) \div 2) <= x
             THEN ICbrtIn(x, (lo + hi + 1) \div 2, hi)
             ELSE ICbrtIn(x, lo, ((lo + hi + 1) \div 2) - 1)
    ) : x \in {x_}, lo \in {lo_}, hi \in {hi_}} : TRUE

\* floor(cbrt(x)) for 0 <= x < 2^31
ICbrt(x_) ==
    CHOOSE val \in {(
        ICbrtIn(x, 0, IF x < 1290 THEN x ELSE 1290)
    ) : x \in {x_}} : TRUE

CubeOf(x_, r_) ==
    CHOOSE val \in {(
        r * r * r = x
    ) : x \in {x_}, r \in {r_}} : TRUE

IsCube(x_) ==
    CHOOSE val \in {(
        x >= 0 /\ CubeOf(x, ICbrt(x))
    ) : x \in {x_}} : TRUE

\* The cube root of a finite a >= 0: exact on perfect cubes, rounded down to
\* the grid otherwise.
FCbrt(a_) ==
    CHOOSE val \in {(
        IF IsCube(a.n) /\ IsCube(a.d) THEN Rat(ICbrt(a.n), ICbrt(a.d))
        ELSE Rat(ICbrt((a.n * SqrtGrid * SqrtGrid * SqrtGrid) \div a.d), SqrtGrid)
    ) : a \in {a_}} : TRUE

\* c * sqrt(sqrt(c)) = c^(5/4)
pow_5_4(c_) ==
    CHOOSE val \in {(
        FMul(c, FSqrt(FSqrt(c)))
    ) : c \in {c_}} : TRUE

\* u.powf(1.0 / 2.4) = u^(5/12), as cbrt(u)^(5/4) with the roots rounded down
\* to the grid.  NaN for NaN and for a negative base.
powf(u_) ==
    CHOOSE val \in {(
        IF IsNaN(u) \/ u.n < 0 THEN NaN
        ELSE IF u.d = 0 THEN PosInf
        ELSE pow_5_4(FCbrt(u))
    ) : u \in {u_}} : TRUE

srgb_gamma(u_) ==
    CHOOSE val \in {(
        IF FLt(u, Rat(31308, 10000000)) THEN FMul(Rat(1292, 100), u)
        ELSE FSub(FMul(Rat(1055, 1000), powf(u)), Rat(55, 1000))
    ) : u \in {u_}} : TRUE

\* color.cwise(Vector3::ones(), srgb_gamma)
cwise_gamma(a_) ==
    CHOOSE val \in {(
        new(srgb_gamma(a.x), srgb_gamma(a.y), srgb_gamma(a.z))
    ) : a \in {a_}} : TRUE

\* Faulty variant of pixel_of: column-major.
pixel_of_transposed(i, xres) == <<i \div xres, i % xres>>

\* (x, y) of the pixel with linear index i
pixel_of(i, xres) == <<i % xres, i \div xres>>

\* The colour of a pixel from the sum of its samples: the average,
\* gamma-encoded and then bounded by 1 in every component.
pixel_color(color, samples) ==
    cwise_min(cwise_gamma(VMul(color, FDiv(I(1), I(samples)))), ones)

\* Image::new; done tells a returned image from one not yet returned.
Image_new(data, width, height) ==
    [done |-> TRUE, data |-> data, width |-> width, height |-> height]

----------------------------------------------------------------------------
(* Input domains *)

\* Largest absolute coordinate of the integer points and vectors drawn.
MaxCoord == 1

Coords == (-MaxCoord)..MaxCoord

Points == {V(x, y, z) : x \in Coords, y \in Coords, z \in Coords}

\* Largest absolute value of a scale component (components are never zero).
MaxScale == 2

ScaleComps == ((-MaxScale)..MaxScale) \ {0}

Scales == {Scale(V(x, y, z)) : x \in ScaleComps, y \in ScaleComps, z \in ScaleComps}

Translates == {Translate(p) : p \in Points}

\* Unit axes and angles with rational cosine and sine.
UnitAxes ==
    {V(1, 0, 0), V(0, 1, 0), V(0, 0, 1),
     new(Rat(2, 3), Rat(2, 3), Rat(1, 3)), new(Rat(-1, 3), Rat(2, 3), Rat(-2, 3))}

Angles ==
    {Angle(I(0), I(1)), Angle(I(-1), I(0)), Angle(Rat(3, 5), Rat(4, 5)),
     Angle(Rat(-4, 5), Rat(-3, 5))}

Rotates == {Rotate(axis, a) : axis \in UnitAxes, a \in Angles}

Pending == [done |-> FALSE]

SampleIdle == stack = <<>> /\ ret = <<>> /\ queries = 0 /\ calls = <<>>

RenderIdle == next_ix = {} /\ worker = <<>> /\ slots = <<>> /\ image = <<>>

sample_vars == <<stack, ret, queries, calls>>

render_vars == <<next_ix, worker, slots, image>>

----------------------------------------------------------------------------
(* Transform round trips: t.inverse().transform(t.transform(p)) *)

InitTransform ==
    /\ inp \in [t : Scales \cup Translates \cup Rotates, p : Points]
    /\ out = Pending
    /\ SampleIdle /\ RenderIdle

Forward ==
    /\ ~out.done /\ ~("fwd" \in DOMAIN out)
    /\ out' = [done |-> FALSE, fwd |-> transform(inp.t, inp.p)]
    /\ UNCHANGED <<inp, sample_vars, render_vars>>

Backward ==
    /\ ~out.done /\ "fwd" \in DOMAIN out
    /\ out' = [done |-> TRUE, fwd |-> out.fwd,
               inv |-> inverse(inp.t),
               back |-> transform(inverse(inp.t), out.fwd)]
    /\ UNCHANGED <<inp, sample_vars, render_vars>>

NextTransform == Forward \/ Backward

SpecTransform == InitTransform /\ [][NextTransform]_vars

\* C1: for every Translate, unit-axis Rotate and Scale with non-zero
\* components (also non-uniform ones) and every point p,
\* t.inverse().transform(t.transform(p)) = p, and the inverse of Scale(s) is
\* the per-axis reciprocal scale (1/s.x, 1/s.y, 1/s.z).
C1_RoundTrip ==
    out.done =>
        /\ out.back = inp.p
        /\ inp.t.kind = "Scale" =>
               out.inv = Scale(new(FDiv(I(1), inp.t.v.x), FDiv(I(1), inp.t.v.y),
                                   FDiv(I(1), inp.t.v.z)))

\* The round trip does hold for translations, rotations and uniform scales.
C1_RoundTripUniform ==
    (out.done /\ (inp.t.kind = "Scale" =>
                     inp.t.v.x = inp.t.v.y /\ inp.t.v.y = inp.t.v.z))
        => out.back = inp.p

----------------------------------------------------------------------------
(* Scene::closest_intersection over object lists *)

NoMaterial == [kind |-> "Diffuse", color |-> zeros, intensity |-> I(0), roughness |-> I(0)]

\* Largest number of objects in a scene.
MaxObjects == 3

ObjectPool ==
    {Object("Sphere", NoMaterial, <<>>),
     Object("Sphere", NoMaterial, <<Scale(V(2, 2, 2))>>),
     Object("Plane", NoMaterial, <<Translate(V(0, 0, -1))>>),
     Object("Plane", NoMaterial, <<Translate(V(0, 0, 3))>>)}

SeqsUpTo(S, k) == UNION {[1..m -> S] : m \in 0..k}

SceneRays ==
    {Ray(V(0, 0, -5), V(0, 0, 1)), Ray(V(0, 0, 0), V(0, 0, 1)),
     Ray(V(0, 0, 5), V(0, 0, -1))}

Tmins == {I(0), Rat(1, 1000), I(4)}

InitScene ==
    /\ inp \in [objects : SeqsUpTo(ObjectPool, MaxObjects), ray : SceneRays, tmin : Tmins]
    /\ out = Pending
    /\ SampleIdle /\ RenderIdle

Closest ==
    /\ ~out.done
    /\ out' = [done |-> TRUE, c |-> closest_intersection(inp.objects, inp.ray, inp.tmin)]
    /\ UNCHANGED <<inp, sample_vars, render_vars>>

NextScene == Closest

SpecScene == InitScene /\ [][NextScene]_vars

\* The objects of the scene whose intersection with the ray lies beyond tmin.
ValidHits ==
    {o \in 1..Len(inp.objects) :
        LET i == Object_intersection(inp.objects[o], inp.ray)
        IN  i.some /\ FGt(i.t, inp.tmin)}

\* C2: closest_intersection returns the hit of minimum t among the object
\* hits with t > tmin, the earliest object in the list among those sharing
\* that minimum, and None exactly when no object has a hit with t > tmin.
C2_ClosestIsMinimum ==
    out.done =>
        /\ out.c.some <=> ValidHits # {}
        /\ out.c.some =>
              LET i == Object_intersection(inp.objects[out.c.obj], inp.ray)
              IN  /\ out.c.obj \in ValidHits
                  /\ out.c.t = i.t
                  /\ out.c.position = i.position /\ out.c.normal = i.normal
                  /\ \A o \in ValidHits :
                        LET j == Object_intersection(inp.objects[o], inp.ray)
                        IN  /\ FLe(out.c.t, j.t)
                            /\ j.t = out.c.t => out.c.obj <= o

\* A scene where two objects tie at the minimum, an earlier object's hit is
\* at or before tmin, and the winner is not the first object.
C2_Witness ==
    /\ out.done /\ out.c.some /\ out.c.obj > 1
    /\ \E o \in ValidHits :
          o > out.c.obj /\ Object_intersection(inp.objects[o], inp.ray).t = out.c.t
    /\ \E o \in 1..Len(inp.objects) :
          LET i == Object_intersection(inp.objects[o], inp.ray)
          IN  o < out.c.obj /\ i.some /\ ~FGt(i.t, inp.tmin)

----------------------------------------------------------------------------
(* Shape::intersection in local object space *)

ShapeOrigins == Points \cup {V(0, 0, -5), V(0, 0, 5), V(-2, 0, 1), V(0, -2, -1)}

ShapeDirections == Points \ {zeros}

\* Directions drawn for the plane only, around its guards: z below the
\* threshold 1.0e-6, z at the threshold, and Vector3::unit(0, 0, 0), the
\* direction Camera::ray builds for the centre pixel when focal_len is 0.
PlaneDirections ==
    {new(I(0), I(0), Rat(1, 10000000)), new(I(0), I(0), Rat(-1, 1000000)),
     unit(I(0), I(0), I(0))}

InitShape ==
    /\ inp \in [shape : {"Sphere", "Plane"},
                 ray : {Ray(o, d) : o \in ShapeOrigins, d \in ShapeDirections}]
                \cup [shape : {"Plane"},
                      ray : {Ray(o, d) : o \in ShapeOrigins, d \in PlaneDirections}]
    /\ out = Pending
    /\ SampleIdle /\ RenderIdle

Intersect ==
    /\ ~out.done
    /\ out' = [done |-> TRUE, r |-> Shape_intersection(inp.shape, inp.ray)]
    /\ UNCHANGED <<inp, sample_vars, render_vars>>

NextShape == Intersect

SpecShape == InitShape /\ [][NextShape]_vars

\* C3: every hit Shape::Plane.intersection returns lies in the unit square,
\* -1 <= x <= 1 and -1 <= y <= 1.
C3_PlaneInUnitSquare ==
    (out.done /\ inp.shape = "Plane" /\ out.r.some) =>
        /\ FLe(I(-1), out.r.position.x) /\ FLe(out.r.position.x, I(1))
        /\ FLe(I(-1), out.r.position.y) /\ FLe(out.r.position.y, I(1))

\* What the plane test does enforce: the upper bounds only.
C3_PlaneUpperBounds ==
    (out.done /\ inp.shape = "Plane" /\ out.r.some) =>
        ~FGt(out.r.position.x, I(1)) /\ ~FGt(out.r.position.y, I(1))

\* The quadratic's coefficients for the ray under evaluation.
QuadA == squared_norm(inp.ray.direction)

QuadB == FMul(I(2), dot(inp.ray.direction, inp.ray.origin))

QuadC == FSub(squared_norm(inp.ray.origin), I(1))

Disc == FSub(FMul(QuadB, QuadB), FMul(I(4), FMul(QuadA, QuadC)))

\* C4: the sphere test returns None exactly when b^2 - 4ac < 0; otherwise it
\* returns the smaller root of a t^2 + b t + c = 0 (checked where the
\* discriminant is a perfect square, so that the root is rational) with
\* position ray.at(t), also when that root is negative; and the two worked
\* examples give t = 4 at (0,0,-1) with normal (0,0,-1), and t = -1.
C4_SphereNearRoot ==
    (out.done /\ inp.shape = "Sphere") =>
        /\ out.r.some <=> ~FLt(Disc, I(0))
        /\ out.r.some => out.r.position = at(inp.ray, out.r.t)
        /\ (out.r.some /\ IsSquare(Disc.n) /\ IsSquare(Disc.d)) =>
              /\ FAdd(FAdd(FMul(QuadA, Powi2(out.r.t)), FMul(QuadB, out.r.t)), QuadC) = I(0)
              /\ FLe(FAdd(FMul(FMul(I(2), QuadA), out.r.t), QuadB), I(0))
        /\ inp.ray = Ray(V(0, 0, -5), V(0, 0, 1)) =>
              /\ out.r.some /\ out.r.t = I(4)
              /\ out.r.position = V(0, 0, -1) /\ out.r.normal = V(0, 0, -1)
        /\ inp.ray = Ray(V(0, 0, 0), V(1, 0, 0)) => out.r.some /\ out.r.t = I(-1)

\* A ray from inside the sphere: two distinct roots, the near one negative.
C4_Witness ==
    /\ out.done /\ inp.shape = "Sphere" /\ out.r.some
    /\ FLt(QuadC, I(0)) /\ FLt(out.r.t, I(0))
    /\ FGt(Disc, I(0)) /\ IsSquare(Disc.n) /\ IsSquare(Disc.d)

----------------------------------------------------------------------------
(* Material::lighting: the shading of one sampled direction *)

UnitDirs ==
    {V(1, 0, 0), V(-1, 0, 0), V(0, 1, 0), V(0, -1, 0), V(0, 0, 1), V(0, 0, -1),
     new(Rat(2, 3), Rat(2, 3), Rat(1, 3)), new(Rat(4, 9), Rat(4, 9), Rat(-7, 9)),
     new(Rat(3, 5), Rat(4, 5), I(0))}

Views == {V(0, 0, 1), V(1, 0, 0), new(Rat(2, 3), Rat(2, 3), Rat(1, 3))}

Colors == {zeros, ones, new(I(1), Rat(1, 2), I(0))}

Radiances == {zeros, ones, new(I(2), Rat(1, 2), I(0))}

Materials ==
    {Emissive(c, i) : c \in Colors, i \in {I(2), Rat(1, 2)}}
        \cup {Diffuse(c) : c \in Colors}
        \cup {Specular(c, r) : c \in Colors, r \in {I(0), Rat(1, 2), I(1)}}

\* dir is a direction the rejection loop accepts: dir . normal > 0.
InitMaterial ==
    /\ inp \in [m : Materials, view : Views, dir : UnitDirs, normal : UnitDirs,
                 incoming : Radiances]
    /\ FGt(dot(inp.dir, inp.normal), I(0))
    /\ out = Pending
    /\ SampleIdle /\ RenderIdle

Shade ==
    /\ ~out.done
    /\ out' = [done |-> TRUE,
               halfway |-> specular_halfway(inp.view, inp.dir),
               d |-> specular_d(inp.normal, specular_halfway(inp.view, inp.dir),
                                inp.m.roughness),
               g |-> specular_g(inp.view, specular_halfway(inp.view, inp.dir)),
               result |-> shade(inp.m, inp.view, inp.dir, inp.normal, inp.incoming)]
    /\ UNCHANGED <<inp, sample_vars, render_vars>>

NextMaterial == Shade

SpecMaterial == InitMaterial /\ [][NextMaterial]_vars

InUnitInterval(a) == FLe(I(0), a) /\ FLe(a, I(1))

\* C5: for Specular, G = clamp(1 / (4 (view.halfway)^2), 0, 1) and
\* D = clamp((normal.halfway)^2 / (roughness^2 - 2 roughness + pi), 0, 1)
\* both lie in [0,1], and the result is 2 pi (D G color) times the incoming
\* radiance component-wise.
C5_SpecularTerms ==
    (out.done /\ inp.m.kind = "Specular" /\ ~IsNaN(out.g)) =>
        LET vh == dot(inp.view, out.halfway)
            nh == dot(inp.normal, out.halfway)
            r == inp.m.roughness
            G == FClamp(FDiv(I(1), FMul(I(4), Powi2(vh))), I(0), I(1))
            D == FClamp(FDiv(Powi2(nh), FAdd(FSub(Powi2(r), FMul(I(2), r)), PI)),
                        I(0), I(1))
        IN  /\ out.g = G /\ InUnitInterval(out.g)
            /\ out.d = D /\ InUnitInterval(out.d)
            /\ out.result =
                   VMul(cwise_mul(VMul(inp.m.color, FMul(D, G)), inp.incoming),
                        FMul(I(2), PI))

\* What the code computes: the clamp is applied to 4 (view.halfway)^2 before
\* the reciprocal is taken, so G is never below 1.
C5_GeometryTermAtLeastOne ==
    (out.done /\ inp.m.kind = "Specular" /\ ~IsNaN(out.g)) =>
        /\ FLe(I(1), out.g)
        /\ InUnitInterval(out.d) \/ IsNaN(out.d)

\* C11: lighting on Emissive{color, intensity} returns exactly
\* color * intensity, whatever the view, the normal, the sampled direction
\* and the incoming radiance; color (1,1,1) with intensity 2 gives (2,2,2).
C11_EmissiveIgnoresIncoming ==
    (out.done /\ inp.m.kind = "Emissive") =>
        /\ out.result = new(FMul(inp.m.color.x, inp.m.intensity),
                            FMul(inp.m.color.y, inp.m.intensity),
                            FMul(inp.m.color.z, inp.m.intensity))
        /\ (inp.m.color = ones /\ inp.m.intensity = I(2)) => out.result = V(2, 2, 2)

\* The light (1,1,1) with intensity 2 shaded with a non-black incoming
\* radiance that differs from white.
C11_Witness ==
    /\ out.done /\ inp.m = Emissive(ones, I(2))
    /\ inp.incoming = new(I(2), Rat(1, 2), I(0))
    /\ out.result = V(2, 2, 2)

----------------------------------------------------------------------------
(* Object::intersection in world space *)

\* Largest number of transforms of an object.
MaxTransforms == 2

TransformPool ==
    {Translate(V(0, 0, 2)), Translate(V(1, 0, 0)),
     Scale(V(2, 2, 2)), Scale(V(1, 2, 2)), Scale(V(2, 1, 1)), Scale(V(-1, 1, 1)),
     Rotate(V(0, 0, 1), Angle(I(0), I(1)))}

ObjectRays ==
    {Ray(V(0, 0, -5), V(0, 0, 1)), Ray(V(0, 0, 5), V(0, 0, -1)),
     Ray(V(2, 2, 1), V(-2, -2, -1)), Ray(V(4, 4, 2), V(-2, -2, -1)),
     Ray(V(-2, -2, 5), V(0, 0, -1)), Ray(V(1, 0, 5), V(0, 0, -1)),
     Ray(V(5, 0, 0), V(-1, 0, 0)), Ray(V(0, 3, 4), V(0, -3, -4))}

InitObject ==
    /\ inp \in [obj : {Object(sh, NoMaterial, ts) :
                          sh \in {"Sphere", "Plane"},
                          ts \in SeqsUpTo(TransformPool, MaxTransforms)},
                 ray : ObjectRays]
    /\ out = Pending
    /\ SampleIdle /\ RenderIdle

ObjectIntersect ==
    /\ ~out.done
    /\ out' = [done |-> TRUE,
               local |-> Shape_intersection(inp.obj.object,
                                            to_local(inp.obj.transforms, inp.ray)),
               r |-> Object_intersection(inp.obj, inp.ray)]
    /\ UNCHANGED <<inp, sample_vars, render_vars>>

NextObject == ObjectIntersect

SpecObject == InitObject /\ [][NextObject]_vars

\* a and b are parallel and point the same way.
SameDirection(a, b) == cross(a, b) = zeros /\ FGt(dot(a, b), I(0))

\* The normal rule as stated: Scale(s) divides the normal by s per axis.
RECURSIVE per_axis_normal(_, _)
per_axis_normal(transforms, p) ==
    IF transforms = <<>> THEN p
    ELSE LET t == Head(transforms)
         IN  per_axis_normal(Tail(transforms),
                 CASE t.kind = "Translate" -> p
                   [] t.kind = "Rotate" -> transform(t, p)
                   [] t.kind = "Scale" ->
                         new(FDiv(p.x, t.v.x), FDiv(p.y, t.v.y), FDiv(p.z, t.v.z)))

\* C6: the world normal of a hit is the normalization of the local normal
\* folded through the transforms in declaration order, Translate leaving it
\* unchanged, Rotate rotating it and Scale(s) dividing it by s per axis.
C6_NormalPerAxisInverseScale ==
    (out.done /\ out.r.some) =>
        SameDirection(out.r.normal, per_axis_normal(inp.obj.transforms, out.local.normal))

----------------------------------------------------------------------------
(* Scene::sample -> Material::lighting -> Scene::sample, call by call *)

\* Largest bounce budget a sample call is started with.
MaxBounces == 3

SampleScenes ==
    {<<>>,
     <<Object("Sphere", Diffuse(new(I(1), Rat(1, 2), I(0))), <<Translate(V(0, 0, 3))>>),
       Object("Plane", Emissive(ones, I(2)), <<Translate(V(0, 0, -1))>>)>>,
     <<Object("Plane", Specular(ones, I(1)), <<Translate(V(0, 0, 2))>>),
       Object("Sphere", Emissive(new(I(1), Rat(1, 2), I(0)), I(2)), <<>>),
       Object("Sphere", Diffuse(ones), <<Scale(V(2, 2, 2)), Translate(V(0, 0, -4))>>)>>}

SampleRays ==
    {Ray(zeros, V(0, 0, 1)), Ray(zeros, V(0, 0, -1)), Ray(zeros, V(1, 0, 0)),
     Ray(V(0, 0, 5), V(0, 0, -1))}

SampleFrame(ray, tmin, bounces) ==
    [fn |-> "sample", ray |-> ray, tmin |-> tmin, bounces |-> bounces]

LightingFrame(m, view, position, normal, bounces) ==
    [fn |-> "lighting", m |-> m, view |-> view, position |-> position,
     normal |-> normal, bounces |-> bounces, dir |-> zeros, called |-> FALSE]

InitSample ==
    /\ inp \in [objects : SampleScenes, ray : SampleRays,
                 tmin : {I(0), BounceTmin}, bounces : 0..MaxBounces]
    /\ out = Pending
    /\ stack = <<SampleFrame(inp.ray, inp.tmin, inp.bounces)>>
    /\ ret = <<>>
    /\ queries = 0
    /\ calls = <<inp.bounces>>
    /\ RenderIdle

Top == stack[Len(stack)]

Pop == SubSeq(stack, 1, Len(stack) - 1)

InSample == stack # <<>> /\ Top.fn = "sample" /\ ret = <<>>

\* bounces == 0: black, without an intersection test.
SampleBlack ==
    /\ InSample /\ Top.bounces = 0
    /\ stack' = Pop
    /\ ret' = <<zeros>>
    /\ UNCHANGED <<inp, out, queries, calls, render_vars>>

\* No closest intersection: black.
SampleMiss ==
    /\ InSample /\ Top.bounces # 0
    /\ ~closest_intersection(inp.objects, Top.ray, Top.tmin).some
    /\ queries' = queries + 1
    /\ stack' = Pop
    /\ ret' = <<zeros>>
    /\ UNCHANGED <<inp, out, calls, render_vars>>

\* Faulty variant of lighting_call: the view vector is the ray's direction.
lighting_call_along_ray(frame, closest) ==
    LightingFrame(inp.objects[closest.obj].material, frame.ray.direction,
                  closest.position, closest.normal, frame.bounces - 1)

\* The frame of the lighting call sample makes for the hit `closest`.
lighting_call(frame, closest) ==
    LightingFrame(inp.objects[closest.obj].material, VNeg(frame.ray.direction),
                  closest.position, closest.normal, frame.bounces - 1)

\* A closest intersection: obj.material.lighting(-ray.direction, ...).
SampleHit ==
    /\ InSample /\ Top.bounces # 0
    /\ \E closest \in {closest_intersection(inp.objects, Top.ray, Top.tmin)} :
          /\ closest.some
          /\ stack' = Append(stack, lighting_call(Top, closest))
    /\ queries' = queries + 1
    /\ UNCHANGED <<inp, out, ret, calls, render_vars>>

InLoop == stack # <<>> /\ Top.fn = "lighting" /\ ~Top.called

\* The loop draws a direction below the surface and goes round again.
DrawReject ==
    /\ InLoop
    /\ \E dir \in DrawnDirs :
          /\ ~accepts(dir, Top.normal)
          /\ stack' = [stack EXCEPT ![Len(stack)].dir = dir]
    /\ UNCHANGED <<inp, out, ret, queries, calls, render_vars>>

\* Faulty variant of nested_call: the budget of the enclosing sample call.
nested_call_same_budget(frame, dir) ==
    SampleFrame(Ray(frame.position, dir), BounceTmin, frame.bounces + 1)

\* The sample call lighting makes along the accepted direction.
nested_call(frame, dir) == SampleFrame(Ray(frame.position, dir), BounceTmin, frame.bounces)

\* The loop breaks with dir and lighting calls scene.sample along it.
DrawAccept ==
    /\ InLoop
    /\ \E dir \in DrawnDirs :
          /\ accepts(dir, Top.normal)
          /\ stack' = Append([stack EXCEPT ![Len(stack)].dir = dir,
                                           ![Len(stack)].called = TRUE],
                             nested_call(Top, dir))
          /\ calls' = Append(calls, nested_call(Top, dir).bounces)
    /\ UNCHANGED <<inp, out, ret, queries, render_vars>>

\* The nested sample has returned `incoming`: lighting returns the shaded
\* value, which the sample call that made the lighting call returns in turn.
LightingReturn ==
    /\ stack # <<>> /\ Top.fn = "lighting" /\ Top.called /\ ret # <<>>
    /\ ret' = <<shade(Top.m, Top.view, Top.dir, Top.normal, ret[1])>>
    /\ stack' = SubSeq(stack, 1, Len(stack) - 2)
    /\ UNCHANGED <<inp, out, queries, calls, render_vars>>

NextSample ==
    \/ SampleBlack
    \/ SampleMiss
    \/ SampleHit
    \/ DrawReject
    \/ DrawAccept
    \/ LightingReturn

SpecSample == InitSample /\ [][NextSample]_vars

\* Each step the running code takes is eventually taken, and a rejection
\* loop eventually draws a direction it accepts.
FairSample ==
    /\ SpecSample
    /\ WF_vars(SampleBlack) /\ WF_vars(SampleMiss) /\ WF_vars(SampleHit)
    /\ WF_vars(DrawAccept) /\ WF_vars(LightingReturn)

Returned == stack = <<>> /\ ret # <<>>

\* The step-by-step run returns one of the values of the function above.
SampleAgrees ==
    Returned => ret[1] \in sample_results(inp.objects, inp.ray, inp.tmin, inp.bounces)

\* The closest intersection the sample call of `frame` finds.
closest_of(frame) == closest_intersection(inp.objects, frame.ray, frame.tmin)

\* stack[k] is a lighting call made by the sample call below it for the hit
\* it found, with view = -ray.direction and one bounce less.
Delegated(k) ==
    /\ k > 1
    /\ stack[k - 1].fn = "sample"
    /\ stack[k - 1].bounces > 0
    /\ closest_of(stack[k - 1]).some
    /\ stack[k].m = inp.objects[closest_of(stack[k - 1]).obj].material
    /\ stack[k].view = VNeg(stack[k - 1].ray.direction)
    /\ stack[k].position = closest_of(stack[k - 1]).position
    /\ stack[k].normal = closest_of(stack[k - 1]).normal
    /\ stack[k].bounces = stack[k - 1].bounces - 1

\* C7: Scene::sample returns black in every terminal case: with bounces = 0
\* (and then without any intersection test), with no objects in the scene, and
\* when nothing is hit beyond tmin; a lighting call is made only for a closest
\* intersection found with bounces > 0, for the hit object's material, with
\* view = -ray.direction and budget bounces - 1.
C7_BlackOrDelegates ==
    /\ (Returned /\ inp.bounces = 0) => (ret[1] = zeros /\ queries = 0)
    /\ (Returned /\ Len(inp.objects) = 0) => ret[1] = zeros
    /\ (Returned /\ ~closest_of(inp).some) => ret[1] = zeros
    /\ (Returned /\ ret[1] # zeros) => (inp.bounces > 0 /\ closest_of(inp).some)
    /\ \A k \in 1..Len(stack) : stack[k].fn = "lighting" => Delegated(k)

\* A sample call with budget 1 has hit an object and delegated to its material,
\* whose nested sample call is about to return black on an exhausted budget.
C7_Witness ==
    /\ Len(stack) = 3
    /\ stack[1].bounces = 1
    /\ stack[2].fn = "lighting" /\ stack[2].called
    /\ stack[3].fn = "sample" /\ stack[3].bounces = 0

\* C8: the recursion sample -> lighting -> sample is bounded by the budget:
\* every nested sample call gets a budget exactly one smaller than the sample
\* call enclosing it, a call with budget 0 returns black without a query, a
\* call sample(ray, tmin, b) makes at most b closest_intersection queries, and
\* it eventually returns when every rejection loop eventually accepts.
C8_BoundedRecursion ==
    /\ [](\A k \in 2..Len(calls) : calls[k] = calls[k - 1] - 1)
    /\ [](\A k \in 3..Len(stack) :
              stack[k].fn = "sample" => stack[k].bounces = stack[k - 2].bounces - 1)
    /\ [](Len(stack) <= 2 * inp.bounces + 1)
    /\ [](queries <= inp.bounces)
    /\ [][(InSample /\ Top.bounces = 0) => (ret' = <<zeros>> /\ queries' = queries)]_vars
    /\ <>Returned

\* A call with the largest budget has returned after spending all of it: one
\* query per level, and a nested call for each budget down to 0.
C8_Witness ==
    /\ Returned
    /\ inp.bounces = MaxBounces
    /\ queries = MaxBounces
    /\ Len(calls) = MaxBounces + 1
    /\ calls[Len(calls)] = 0

----------------------------------------------------------------------------
(* Scene::render: the pixel tasks run by the workers of the thread pool *)

\* Number of worker threads.
NWorkers == 2

\* Largest number of samples per pixel.
MaxSamples == 2

Workers == 1..NWorkers

RenderScenes ==
    {<<Object("Plane", Emissive(new(I(1), Rat(1, 8), Rat(1, 1000)), I(2)),
              <<Translate(V(-1, 0, 2))>>)>>,
     <<Object("Sphere", Diffuse(new(I(1), Rat(1, 2), I(0))), <<Translate(V(0, 0, 3))>>),
       Object("Plane", Emissive(ones, Rat(1, 4)), <<Translate(V(0, 0, -1))>>)>>,
     <<Object("Plane", Emissive(new(I(-1), I(1), I(1)), I(1)), <<Translate(V(0, 0, 2))>>)>>}

Cameras == {Camera(I(1), I(2))}

\* <<xres, yres>>
Resolutions == {<<2, 2>>, <<3, 1>>}

Idle == [busy |-> FALSE]

Task(i, x, y, ray, color, k) ==
    [busy |-> TRUE, i |-> i, x |-> x, y |-> y, ray |-> ray, color |-> color, k |-> k]

Result(task, color) == [x |-> task.x, y |-> task.y, ray |-> task.ray, color |-> color]

InitRender ==
    /\ inp \in {[objects |-> o, camera |-> c, xres |-> r[1], yres |-> r[2], samples |-> s] :
                o \in RenderScenes, c \in Cameras, r \in Resolutions, s \in 0..MaxSamples}
    /\ out = Pending
    /\ SampleIdle
    /\ next_ix = 0..(inp.xres * inp.yres - 1)
    /\ worker = [w \in Workers |-> Idle]
    /\ slots = [i \in 0..(inp.xres * inp.yres - 1) |-> <<>>]
    /\ image = Pending

\* A worker takes a pixel index nobody has taken and builds the pixel's ray.
StartPixel(w) ==
    /\ ~image.done /\ ~worker[w].busy
    /\ \E i \in next_ix : \E px \in {pixel_of(i, inp.xres)} :
          /\ worker' = [worker EXCEPT ![w] =
                            Task(i, px[1], px[2],
                                 Camera_ray(inp.camera, px[1], px[2], inp.xres, inp.yres),
                                 zeros, 0)]
          /\ next_ix' = next_ix \ {i}
    /\ UNCHANGED <<inp, out, sample_vars, slots, image>>

\* One round of the samples loop: color = color + self.sample(ray, 0.0, 3)
TakeSample(w) ==
    /\ ~image.done /\ worker[w].busy /\ worker[w].k < inp.samples
    /\ \E c \in sample_results(inp.objects, worker[w].ray, I(0), RenderBounces) :
          worker' = [worker EXCEPT ![w].color = VAdd(worker[w].color, c),
                                   ![w].k = worker[w].k + 1]
    /\ UNCHANGED <<inp, out, sample_vars, next_ix, slots, image>>

\* The loop is over: the task yields the pixel's colour.
FinishPixel(w) ==
    /\ ~image.done /\ worker[w].busy /\ worker[w].k = inp.samples
    /\ slots' = [slots EXCEPT ![worker[w].i] =
                     Append(@, Result(worker[w], pixel_color(worker[w].color, inp.samples)))]
    /\ worker' = [worker EXCEPT ![w] = Idle]
    /\ UNCHANGED <<inp, out, sample_vars, next_ix, image>>

\* collect() and Image::new: every index has been taken and no task runs.
Collect ==
    /\ ~image.done /\ next_ix = {} /\ \A w \in Workers : ~worker[w].busy
    /\ image' = Image_new([k \in 1..(inp.xres * inp.yres) |-> slots[k - 1][1].color],
                          inp.xres, inp.yres)
    /\ UNCHANGED <<inp, out, sample_vars, next_ix, worker, slots>>

NextRender ==
    \/ \E w \in Workers : StartPixel(w)
    \/ \E w \in Workers : TakeSample(w)
    \/ \E w \in Workers : FinishPixel(w)
    \/ Collect

SpecRender == InitRender /\ [][NextRender]_vars

Pixels == 0..(inp.xres * inp.yres - 1)

\* How many times pixel index i is accounted for: waiting, running, finished.
Accounted(i) ==
    (IF i \in next_ix THEN 1 ELSE 0)
    + Cardinality({w \in Workers : worker[w].busy /\ worker[w].i = i})
    + Len(slots[i])

\* C9: render returns only after every pixel task has completed; the buffer
\* has xres * yres entries in row-major order, entry i holding the colour
\* computed for pixel (i mod xres, i div xres) along that pixel's camera ray;
\* and every pixel is computed exactly once, whatever the order in which the
\* workers start and finish pixels.
C9_RenderRowMajor ==
    /\ \A i \in Pixels : Accounted(i) = 1
    /\ image.done =>
          /\ next_ix = {}
          /\ \A w \in Workers : ~worker[w].busy
          /\ image.width = inp.xres /\ image.height = inp.yres
          /\ Len(image.data) = inp.xres * inp.yres
          /\ \A i \in Pixels :
                /\ Len(slots[i]) = 1
                /\ slots[i][1].x = i % inp.xres
                /\ slots[i][1].y = i \div inp.xres
                /\ slots[i][1].ray = Camera_ray(inp.camera, i % inp.xres, i \div inp.xres,
                                                inp.xres, inp.yres)
                /\ image.data[i + 1] = slots[i][1].color

\* render has returned an image that is not square, for two samples a pixel,
\* in which the first and the last pixel differ in colour.
C9_Witness ==
    /\ image.done
    /\ inp.xres = 3 /\ inp.yres = 1 /\ inp.samples = 2
    /\ Len(image.data) = 3
    /\ image.data[1] # image.data[3]

NonNegative(objects) ==
    \A k \in 1..Len(objects) :
        /\ FLe(I(0), objects[k].material.color.x)
        /\ FLe(I(0), objects[k].material.color.y)
        /\ FLe(I(0), objects[k].material.color.z)
        /\ FLe(I(0), objects[k].material.intensity)

\* C10: for a scene whose material colours and intensities are non-negative
\* and samples >= 1, every component of every pixel of the returned Image
\* lies in [0, 1].
C10_PixelsInUnitInterval ==
    (image.done /\ NonNegative(inp.objects) /\ inp.samples >= 1) =>
        \A k \in 1..Len(image.data) :
            /\ InUnitInterval(image.data[k].x)
            /\ InUnitInterval(image.data[k].y)
            /\ InUnitInterval(image.data[k].z)

\* An image of a non-negative scene with a pixel whose first component was
\* cut down to 1 and whose second lies strictly between 0 and 1.
C10_Witness ==
    /\ image.done /\ NonNegative(inp.objects) /\ inp.samples >= 1
    /\ \E k \in 1..Len(image.data) :
          /\ image.data[k].x = I(1)
          /\ FLt(I(0), image.data[k].y) /\ FLt(image.data[k].y, I(1))

----------------------------------------------------------------------------
(* Object::intersection: the world position against the world ray *)

\* Every transform of the list is a Translate or a Scale.
TranslatesAndScales(transforms) ==
    \A k \in 1..Len(transforms) : transforms[k].kind \in {"Translate", "Scale"}

\* Every Scale of the list has three equal components.
UniformScales(transforms) ==
    \A k \in 1..Len(transforms) :
        transforms[k].kind = "Scale" =>
            /\ transforms[k].v.x = transforms[k].v.y
            /\ transforms[k].v.y = transforms[k].v.z

\* C13: for an object whose transforms are Translates and Scales with
\* non-zero components, uniform or not, a returned hit (t, hit) has
\* hit.position = ray.origin + t * ray.direction on the world ray.
C13_HitOnWorldRay ==
    (out.done /\ out.r.some /\ TranslatesAndScales(inp.obj.transforms)) =>
        out.r.position = at(inp.ray, out.r.t)

\* What the code guarantees: the hit lies on the world ray when every Scale
\* of the list is uniform, the case in which inverse() is the inverse.
C13_HitOnWorldRayUniform ==
    (out.done /\ out.r.some /\ TranslatesAndScales(inp.obj.transforms)
        /\ UniformScales(inp.obj.transforms)) =>
        out.r.position = at(inp.ray, out.r.t)

----------------------------------------------------------------------------
(* Shape::Plane: the guards of the plane test *)

FiniteVector(v) == IsFinite(v.x) /\ IsFinite(v.y) /\ IsFinite(v.z)

\* The ray moves away from the plane z = 0: the crossing lies behind the
\* origin.
CrossingBehind(ray) ==
    \/ FGt(ray.origin.z, I(0)) /\ FGt(ray.direction.z, I(0))
    \/ FLt(ray.origin.z, I(0)) /\ FLt(ray.direction.z, I(0))

\* What C14 says of a hit: |direction.z| >= 1e-6, t >= 0, and the normal
\* faces the ray, (0,0,1) when direction.z < 0 and (0,0,-1) otherwise.
FacingHit(ray, r) ==
    /\ FLe(Rat(1, 1000000), FAbs(ray.direction.z))
    /\ FLe(I(0), r.t)
    /\ FLt(dot(r.normal, ray.direction), I(0))
    /\ r.normal = IF FLt(ray.direction.z, I(0)) THEN V(0, 0, 1) ELSE V(0, 0, -1)

\* A ray parallel to the plane, or one whose crossing lies behind its
\* origin, returns no intersection.
NoHitWhenParallelOrBehind ==
    /\ inp.ray.direction.z = I(0) => ~out.r.some
    /\ CrossingBehind(inp.ray) => ~out.r.some

\* C14 as stated: every hit (t, i) Shape::Plane.intersection returns has
\* |ray.direction.z| >= 1e-6, t >= 0 and a normal that faces the ray; a ray
\* parallel to the plane or crossing it behind its origin returns no hit.
C14_PlaneHitFacesRay ==
    (out.done /\ inp.shape = "Plane") =>
        /\ out.r.some => FacingHit(inp.ray, out.r)
        /\ NoHitWhenParallelOrBehind

\* C14, amended: the same, for every hit returned for a ray whose origin and
\* direction have finite components.
C14_PlaneHitFacesFiniteRay ==
    (out.done /\ inp.shape = "Plane") =>
        /\ (out.r.some /\ FiniteVector(inp.ray.origin)
               /\ FiniteVector(inp.ray.direction)) => FacingHit(inp.ray, out.r)
        /\ NoHitWhenParallelOrBehind

\* A finite ray from below the plane that hits it ahead of its origin, with
\* the normal flipped to (0,0,-1).
C14_Witness ==
    /\ out.done /\ inp.shape = "Plane" /\ out.r.some
    /\ FiniteVector(inp.ray.origin) /\ FiniteVector(inp.ray.direction)
    /\ FLt(inp.ray.origin.z, I(0)) /\ FGt(inp.ray.direction.z, I(0))
    /\ FGt(out.r.t, I(0)) /\ out.r.normal = V(0, 0, -1)

----------------------------------------------------------------------------
(* Vector3::cross on integer-valued vectors *)

\* The integer-valued vectors drawn: the small grid and the two vectors of
\* test_cross.
CrossVectors == Points \cup {V(1, 2, 3), V(-1, 10, 1)}

InitCross ==
    /\ inp \in [a : CrossVectors, b : CrossVectors]
    /\ out = Pending
    /\ SampleIdle /\ RenderIdle

Cross ==
    /\ ~out.done
    /\ out' = [done |-> TRUE, result |-> cross(inp.a, inp.b)]
    /\ UNCHANGED <<inp, sample_vars, render_vars>>

NextCross == Cross

SpecCross == InitCross /\ [][NextCross]_vars

\* The integer an integer-valued f32 holds.
IntOf(a) == a.n

\* C12: cross is the right-handed product: on integer-valued a, b it is
\* (a.y b.z - a.z b.y, a.z b.x - a.x b.z, a.x b.y - a.y b.x) in integer
\* arithmetic, x.cross(y) = z, y.cross(z) = x, z.cross(x) = y, and
\* (1,2,3) x (-1,10,1) = (-28,-4,12).
C12_CrossRightHanded ==
    out.done =>
        LET ax == IntOf(inp.a.x)  ay == IntOf(inp.a.y)  az == IntOf(inp.a.z)
            bx == IntOf(inp.b.x)  by == IntOf(inp.b.y)  bz == IntOf(inp.b.z)
        IN  /\ out.result = V(ay * bz - az * by, az * bx - ax * bz, ax * by - ay * bx)
            /\ (inp.a = V(1, 0, 0) /\ inp.b = V(0, 1, 0)) => out.result = V(0, 0, 1)
            /\ (inp.a = V(0, 1, 0) /\ inp.b = V(0, 0, 1)) => out.result = V(1, 0, 0)
            /\ (inp.a = V(0, 0, 1) /\ inp.b = V(1, 0, 0)) => out.result = V(0, 1, 0)
            /\ (inp.a = V(1, 2, 3) /\ inp.b = V(-1, 10, 1)) => out.result = V(-28, -4, 12)

\* The product of test_cross's two general vectors has been taken.
C12_Witness ==
    /\ out.done /\ inp.a = V(1, 2, 3) /\ inp.b = V(-1, 10, 1)
    /\ out.result = V(-28, -4, 12)

====
